---- MODULE Spec2Model ----
(***************************************************************************)
(* A model of bin/StripChromeSymbols.py: main() scans the output of the    *)
(* trace-analysis tool for Chrome modules whose .symcache file is missing, *)
(* retrieves and strips their PDBs into temporary directories, hides the   *)
(* locally built PDBs by renaming them, runs the cache build, renames the  *)
(* PDBs back, verifies the cache files and cleans up.                      *)
(*                                                                         *)
(* main() is one sequential procedure; it is cut into steps at the points  *)
(* where an external tool or the file system decides the outcome, so that  *)
(* the states between the steps (files hidden, build running, ...) exist   *)
(* in the model.  pc names the position of the run inside main().          *)
(***************************************************************************)
EXTENDS Integers, Sequences, FiniteSets, TLC

\* ------------------------------------------------------------------ bounds
MaxLines == 2       \* matched lines in the trace-analysis output
NumPaths == 2       \* distinct Pdb paths a trace line can name
MaxLineLen == 3     \* tokens of one line of trace-analysis output
MaxAgeDigits == 2   \* decimal digits of an Age field

\* --------------------------------------------------------------- alphabet
\* Hex digits as "%x" prints them, decimal digits as int() reads them.
HexDigits == <<"0","1","2","3","4","5","6","7","8","9","a","b","c","d","e","f">>
DecDigits == <<"0","1","2","3","4","5","6","7","8","9">>

\* The guids of the main specification, as the text the pattern captures:
\* five groups joined by hyphens.
GuidText(g) == <<g, "-", g, "-", g, "-", g, "-", g>>
MainGuids == <<GuidText("0e7712be"), GuidText("af064421")>>
MainAge == <<"5", "1">>

VARIABLES
  \* inputs of the run, fixed at Init
  lines,               \* command_output: the matched lines, in order
  un_fastlink_tool,    \* whether mspdbcmf.exe exists (line 95)
  \* the file system
  symcache,            \* the .symcache files that exist under c:\symcache
  files,               \* Pdb files: [<<path, marker>> -> "absent"|"pdb"|"stale"]
  wsExist,             \* the temporary directories of this run that exist
  \* main()'s locals
  pc, i, j, k,
  tempdirs, symcache_files, local_symbol_files, found_uncached,
  symbol_path, renames, error, rename_errors,
  \* what the run did and printed
  calls,               \* the external actions of this run, in order
  outcome, retry_reported,
  rerun,
  \* the scanner and the cache key, on their own (SpecMatch, SpecKey)
  line, dllMatch, guid, age, symcache_file, kpc

fsVars == <<symcache, files, wsExist>>
locVars == <<pc, i, j, k, tempdirs, symcache_files, local_symbol_files,
             found_uncached, symbol_path, renames, error, rename_errors>>
histVars == <<calls, outcome, retry_reported, rerun>>
mainVars == <<lines, un_fastlink_tool, fsVars, locVars, histVars>>
keyVars == <<line, dllMatch, guid, age, symcache_file, kpc>>
vars == <<mainVars, keyVars>>

\* ------------------------------------------------------------ pure helpers
Range(s) == {s[n] : n \in DOMAIN s}

\* int(age), line 164: the decimal text of the trace as a number.
RECURSIVE ParseInt(_)
ParseInt(ds) ==
  IF ds = <<>> THEN 0
  ELSE 10 * ParseInt(SubSeq(ds, 1, Len(ds) - 1))
       + (CHOOSE d \in 0..9 : DecDigits[d + 1] = ds[Len(ds)])

\* "%d" in place of "%x": the age printed as the trace prints it.
RECURSIVE DecimalText(_)
DecimalText(n) ==
  IF n < 10 THEN <<DecDigits[n + 1]>>
  ELSE Append(DecimalText(n \div 10), DecDigits[(n % 10) + 1])

\* "%x" % age, line 166: lowercase hexadecimal, no prefix, no padding.
RECURSIVE HexLower(_)
HexLower(n) ==
  IF n < 16 THEN <<HexDigits[n + 1]>>
  ELSE Append(HexLower(n \div 16), HexDigits[(n % 16) + 1])

\* guid.replace("-", ""), line 163.
StripHyphens(g) == SelectSeq(g, LAMBDA t : t # "-")

\* The .symcache path of line 166, as the sequence of its parts.
SymcacheFile(dll, g, a) ==
  <<"c:\\symcache\\", dll, "-">> \o StripHyphens(g) \o HexLower(ParseInt(a))
     \o <<"v2.symcache">>

\* A Pdb path and its marker-suffixed sibling (temp_name, line 236).  Trace
\* paths name .pdb files and the sibling is the .pdbx file (line 136), so a
\* sibling is never itself a trace path.
Orig(p) == <<p, 0>>
TempName(f) == <<f[1], f[2] + 1>>
Exists(f) == files[f] # "absent"

Paths == 1..NumPaths
FileNames == {Orig(p) : p \in Paths} \cup {TempName(Orig(p)) : p \in Paths}

Records ==
  [dll : {"chrome.dll"}, guid : Range(MainGuids), age : {MainAge}, path : Paths]
RECURSIVE SeqsUpTo(_, _)
SeqsUpTo(S, n) ==
  IF n = 0 THEN {<<>>}
  ELSE LET shorter == SeqsUpTo(S, n - 1)
       IN shorter \cup {Append(s, x) : s \in {t \in shorter : Len(t) = n - 1}, x \in S}

\* Paths and guids are interchangeable names: a trace is taken with its
\* paths and its guids numbered in the order of their first occurrence.
GuidIndex(r) == CHOOSE n \in DOMAIN MainGuids : MainGuids[n] = r.guid
FirstOccurrenceOrder(ids) ==
  \A n \in DOMAIN ids : \/ ids[n] = 1
                         \/ \E m \in 1..(n - 1) : ids[m] >= ids[n] - 1
Traces ==
  {ls \in SeqsUpTo(Records, MaxLines) :
     /\ FirstOccurrenceOrder([n \in DOMAIN ls |-> GuidIndex(ls[n])])
     /\ FirstOccurrenceOrder([n \in DOMAIN ls |-> ls[n].path])}

KeyOf(r) == SymcacheFile(r.dll, r.guid, r.age)
TraceKeys == {KeyOf(lines[n]) : n \in DOMAIN lines}

\* The existence test left out: every record is taken for a cache miss.
CacheHitNever(f) == FALSE

\* os.path.exists(symcache_file), line 167.
CacheHit(f) == f \in symcache

\* Set to true to do symbol translation as well as downloading (line 63).
strip_and_translate == TRUE

\* ------------------------------------------------------------ the scan loop
\* The local file looked for first, whatever RetrieveSymbols.exe resolved.
SourceOfPrefersLocal(r, resolved) ==
  IF strip_and_translate /\ Exists(Orig(r.path)) THEN "local"
  ELSE IF resolved THEN "downloaded"
  ELSE "none"

\* The local path taken as the source without looking whether it exists.
SourceOfUnchecked(r, resolved) ==
  IF resolved THEN "downloaded"
  ELSE IF strip_and_translate THEN "local"
  ELSE "none"

\* Lines 174-188: where the PDB of a cache miss comes from.  resolved says
\* whether RetrieveSymbols.exe printed "Found ... file - placed it in ...".
SourceOf(r, resolved) ==
  IF resolved THEN "downloaded"
  ELSE IF strip_and_translate /\ Exists(Orig(r.path)) THEN "local"
  ELSE "none"

\* A failed pdbcopy that is swallowed when there is no un-fastlink tool.
StripSwallowsFailure(n, tool) ==
  LET copy == <<"pdbcopy", n>>
      failed == <<"pdbcopy_failed", n>>
      conv == <<"unfastlink", n>>
      missing == <<"dest_missing", n>>
      checked(ev) == {[ev |-> ev, res |-> "stripped"],
                      [ev |-> Append(ev, missing), res |-> "abort"]}
  IN checked(<<copy>>)
     \cup (IF tool
           THEN {[ev |-> <<copy, failed, conv>>, res |-> "crash"],
                 [ev |-> <<copy, failed, conv, copy, failed>>, res |-> "crash"]}
                \cup checked(<<copy, failed, conv, copy>>)
           ELSE checked(<<copy, failed>>))

\* The check of line 218 without the sys.exit of line 220.
StripKeepsGoing(n, tool) ==
  LET copy == <<"pdbcopy", n>>
      failed == <<"pdbcopy_failed", n>>
      conv == <<"unfastlink", n>>
      missing == <<"dest_missing", n>>
      checked(ev) == {[ev |-> ev, res |-> "stripped"],
                      [ev |-> Append(ev, missing), res |-> "stripped"]}
  IN checked(<<copy>>)
     \cup (IF tool
           THEN {[ev |-> <<copy, failed, conv>>, res |-> "crash"],
                 [ev |-> <<copy, failed, conv, copy, failed>>, res |-> "crash"]}
                \cup checked(<<copy, failed, conv, copy>>)
           ELSE {[ev |-> <<copy, failed>>, res |-> "crash"]})

\* Lines 197-220: the runs of pdbcopy.exe for line n, each with the external
\* actions it makes ("pdbcopy_failed" marks a pdbcopy that raised,
\* "dest_missing" a dest_path found not to exist at line 218) and how it
\* ends: "stripped" (the loop goes on), "abort" (sys.exit(0) at line 220) or
\* "crash" (an exception nothing catches).
\* With the un-fastlink tool a failed pdbcopy is followed by the conversion
\* and one more pdbcopy; without it the failure is not caught.
Strip(n, tool) ==
  LET copy == <<"pdbcopy", n>>
      failed == <<"pdbcopy_failed", n>>
      conv == <<"unfastlink", n>>
      missing == <<"dest_missing", n>>
      checked(ev) == {[ev |-> ev, res |-> "stripped"],
                      [ev |-> Append(ev, missing), res |-> "abort"]}
  IN checked(<<copy>>)
     \cup (IF tool
           THEN {[ev |-> <<copy, failed, conv>>, res |-> "crash"],
                 [ev |-> <<copy, failed, conv, copy, failed>>, res |-> "crash"]}
                \cup checked(<<copy, failed, conv, copy>>)
           ELSE {[ev |-> <<copy, failed>>, res |-> "crash"]})

\* Lines 66-147: the prerequisites and the trace-analysis tool.
StartRun ==
  /\ pc = "start"
  /\ \E o \in {"noop", "crash", "scan"} :
       /\ calls' = (IF o = "noop" THEN calls ELSE Append(calls, <<"xperf_dbgid", 0>>))
       /\ pc' = (IF o = "scan" THEN "scan" ELSE "done")
       /\ outcome' = (IF o = "scan" THEN outcome
                      ELSE IF o = "noop" THEN "noop" ELSE "crashed")
  /\ UNCHANGED <<lines, un_fastlink_tool, fsVars, i, j, k, tempdirs, symcache_files,
                 local_symbol_files, found_uncached, symbol_path, renames, error,
                 rename_errors, retry_reported, rerun, keyVars>>

\* Lines 149-224: one iteration of the loop over command_output.  The event
\* "resolved" marks a RetrieveSymbols.exe that printed where it placed the
\* PDB (lines 177-183), "local" the fallback of lines 184-188.
ScanLine ==
  /\ pc = "scan"
  /\ i <= Len(lines)
  /\ LET r == lines[i]
         f == KeyOf(r)
     IN IF CacheHit(f)
        THEN /\ i' = i + 1
             /\ UNCHANGED <<pc, tempdirs, symcache_files, local_symbol_files,
                            found_uncached, wsExist, calls, outcome>>
        ELSE \E resolved \in BOOLEAN :
               LET src == SourceOf(r, resolved)
                   got == <<<<"retrieve", i>>>>
                          \o (IF resolved THEN <<<<"resolved", i>>>> ELSE <<>>)
                          \o (IF src = "local" THEN <<<<"local", i>>>> ELSE <<>>)
               IN /\ found_uncached' = TRUE
                  /\ symcache_files' = Append(symcache_files, f)
                  /\ local_symbol_files' =
                       (IF src = "local" THEN Append(local_symbol_files, Orig(r.path))
                        ELSE local_symbol_files)
                  /\ IF src = "none"
                     THEN /\ calls' = calls \o got
                          /\ i' = i + 1
                          /\ UNCHANGED <<pc, tempdirs, wsExist, outcome>>
                     ELSE \E s \in Strip(i, un_fastlink_tool) :
                            /\ tempdirs' = Append(tempdirs, i)
                            /\ wsExist' = wsExist \cup {i}
                            /\ calls' = calls \o got \o <<<<"mkdtemp", i>>>> \o s.ev
                            /\ i' = i + 1
                            /\ pc' = (IF s.res = "stripped" THEN "scan" ELSE "done")
                            /\ outcome' = (IF s.res = "stripped" THEN outcome
                                           ELSE IF s.res = "abort" THEN "aborted"
                                           ELSE "crashed")
  /\ UNCHANGED <<lines, un_fastlink_tool, symcache, files, j, k, symbol_path, renames,
                 error, rename_errors, retry_reported, rerun, keyVars>>

\* The build phase entered without looking at tempdirs.
ScanEndAlwaysBuilds ==
  /\ pc = "scan"
  /\ i > Len(lines)
  /\ symbol_path' = tempdirs
  /\ renames' = <<>>
  /\ error' = FALSE
  /\ rename_errors' = FALSE
  /\ pc' = "hide"
  /\ j' = 1
  /\ UNCHANGED <<lines, un_fastlink_tool, fsVars, i, k, tempdirs, symcache_files,
                 local_symbol_files, found_uncached, calls, outcome, retry_reported,
                 rerun, keyVars>>

\* Lines 226-234 and 286-290: after the loop.
ScanEnd ==
  /\ pc = "scan"
  /\ i > Len(lines)
  /\ IF tempdirs # <<>>
     THEN /\ symbol_path' = tempdirs
          /\ renames' = <<>>
          /\ error' = FALSE
          /\ rename_errors' = FALSE
          /\ pc' = "hide"
          /\ j' = 1
          /\ outcome' = outcome
     ELSE /\ pc' = "done"
          /\ outcome' = (IF found_uncached THEN "nothing_copied" ELSE "nothing_uncached")
          /\ UNCHANGED <<symbol_path, renames, error, rename_errors, j>>
  /\ UNCHANGED <<lines, un_fastlink_tool, fsVars, i, k, tempdirs, symcache_files,
                 local_symbol_files, found_uncached, calls, retry_reported,
                 rerun, keyVars>>

\* --------------------------------------------------- hiding the local PDBs
\* The rename recorded in the try block itself, so also when it raised.
HideResultsAlwaysRecorded(f, fs) ==
  LET t == TempName(f)
      removed == [fs EXCEPT ![t] = "absent"]
  IN {[files |-> removed, hidden |-> TRUE]}
     \cup (IF fs[f] # "absent"
           THEN {[files |-> [removed EXCEPT ![t] = fs[f], ![f] = "absent"],
                  hidden |-> TRUE]}
           ELSE {})

\* Lines 236-250: what the try block can do to the files for local PDB f.
\* os.remove or os.rename may raise (the file is in use, or is not there);
\* hidden says whether the else clause at line 250 records the rename.
HideResults(f, fs) ==
  LET t == TempName(f)
      removed == [fs EXCEPT ![t] = "absent"]
  IN (IF fs[t] # "absent" THEN {[files |-> fs, hidden |-> FALSE]} ELSE {})
     \cup {[files |-> removed, hidden |-> FALSE]}
     \cup (IF fs[f] # "absent"
           THEN {[files |-> [removed EXCEPT ![t] = fs[f], ![f] = "absent"],
                  hidden |-> TRUE]}
           ELSE {})

\* Lines 235-250: one iteration of the loop over local_symbol_files.
HideOne ==
  /\ pc = "hide"
  /\ j <= Len(local_symbol_files)
  /\ \E h \in HideResults(local_symbol_files[j], files) :
       /\ files' = h.files
       /\ renames' = (IF h.hidden
                      THEN Append(renames, <<local_symbol_files[j],
                                             TempName(local_symbol_files[j])>>)
                      ELSE renames)
       /\ rename_errors' = (rename_errors \/ ~h.hidden)
       /\ calls' = (IF h.hidden THEN Append(calls, <<"rename", j>>) ELSE calls)
  /\ j' = j + 1
  /\ UNCHANGED <<lines, un_fastlink_tool, symcache, wsExist, pc, i, k, tempdirs,
                 symcache_files, local_symbol_files, found_uncached, symbol_path,
                 error, outcome, retry_reported, rerun, keyVars>>

\* Lines 238-248: Ctrl+C arrives while os.rename is running.  The rename is
\* done, KeyboardInterrupt is raised inside the try block, and the bare
\* except at line 244 takes it for a rename error: nothing is recorded.
HideInterruptedInTry ==
  /\ pc = "hide"
  /\ j <= Len(local_symbol_files)
  /\ \E h \in HideResults(local_symbol_files[j], files) :
       /\ h.hidden
       /\ files' = h.files
  /\ rename_errors' = TRUE
  /\ calls' = Append(calls, <<"rename", j>>)
  /\ j' = j + 1
  /\ UNCHANGED <<lines, un_fastlink_tool, symcache, wsExist, pc, i, k, tempdirs,
                 symcache_files, local_symbol_files, found_uncached, symbol_path,
                 renames, error, outcome, retry_reported, rerun,
                 keyVars>>

\* Ctrl+C in the hide loop taken as the end of the run's renaming: the
\* restoration loop is passed over.
InterruptHideSkipsRestore ==
  /\ pc = "hide"
  /\ error' = TRUE
  /\ pc' = "restore"
  /\ k' = Len(renames) + 1
  /\ calls' = Append(calls, <<"interrupt", 0>>)
  /\ UNCHANGED <<lines, un_fastlink_tool, fsVars, i, j, tempdirs, symcache_files,
                 local_symbol_files, found_uncached, symbol_path, renames,
                 rename_errors, outcome, retry_reported, rerun,
                 keyVars>>

\* Lines 260-264: Ctrl+C between two renames, outside the inner try.
\* Ctrl+C is modelled where main() handles it, inside the try block of lines
\* 233-259.  Inside the try of the restoration loop the bare except takes it
\* for a failed rename back, which RestoreResults already allows; anywhere
\* else it ends the script through Python's default handler.
InterruptHide ==
  /\ pc = "hide"
  /\ error' = TRUE
  /\ pc' = "restore"
  /\ k' = 1
  /\ calls' = Append(calls, <<"interrupt", 0>>)
  /\ UNCHANGED <<lines, un_fastlink_tool, fsVars, i, j, tempdirs, symcache_files,
                 local_symbol_files, found_uncached, symbol_path, renames,
                 rename_errors, outcome, retry_reported, rerun,
                 keyVars>>

\* ------------------------------------------------------------- the build
\* The build started whether or not a rename failed.
BuildStartDespiteErrors ==
  /\ pc = "hide"
  /\ j > Len(local_symbol_files)
  /\ pc' = "build"
  /\ calls' = Append(calls, <<"xperf_build", 0>>)
  /\ k' = 1
  /\ UNCHANGED <<lines, un_fastlink_tool, fsVars, i, j, tempdirs, symcache_files,
                 local_symbol_files, found_uncached, symbol_path, renames, error,
                 rename_errors, outcome, retry_reported, rerun, keyVars>>

\* Lines 253-257: the build is started unless a rename failed.
BuildStart ==
  /\ pc = "hide"
  /\ j > Len(local_symbol_files)
  /\ IF rename_errors
     THEN /\ pc' = "restore"
          /\ calls' = Append(calls, <<"skip_build", 0>>)
     ELSE /\ pc' = "build"
          /\ calls' = Append(calls, <<"xperf_build", 0>>)
  /\ k' = 1
  /\ UNCHANGED <<lines, un_fastlink_tool, fsVars, i, j, tempdirs, symcache_files,
                 local_symbol_files, found_uncached, symbol_path, renames, error,
                 rename_errors, outcome, retry_reported, rerun,
                 keyVars>>

\* Lines 258-259: xperf ends, having written the .symcache files it could.
BuildFinish ==
  /\ pc = "build"
  /\ \E built \in SUBSET TraceKeys : symcache' = symcache \cup built
  /\ pc' = "restore"
  /\ UNCHANGED <<lines, un_fastlink_tool, files, wsExist, i, j, k, tempdirs,
                 symcache_files, local_symbol_files, found_uncached, symbol_path,
                 renames, error, rename_errors, calls, outcome,
                 retry_reported, rerun, keyVars>>

\* Ctrl+C during the build with no handler around it: the script ends.
InterruptBuildUncaught ==
  /\ pc = "build"
  /\ pc' = "done"
  /\ outcome' = "crashed"
  /\ calls' = Append(calls, <<"interrupt", 0>>)
  /\ UNCHANGED <<lines, un_fastlink_tool, fsVars, i, j, k, tempdirs, symcache_files,
                 local_symbol_files, found_uncached, symbol_path, renames, error,
                 rename_errors, retry_reported, rerun, keyVars>>

\* Lines 260-264: Ctrl+C while xperf is building.
InterruptBuild ==
  /\ pc = "build"
  /\ \E built \in SUBSET TraceKeys : symcache' = symcache \cup built
  /\ error' = TRUE
  /\ pc' = "restore"
  /\ calls' = Append(calls, <<"interrupt", 0>>)
  /\ UNCHANGED <<lines, un_fastlink_tool, files, wsExist, i, j, k, tempdirs,
                 symcache_files, local_symbol_files, found_uncached, symbol_path,
                 renames, rename_errors, outcome, retry_reported, rerun,
                 keyVars>>

\* ------------------------------------------------------------ restoration
\* Lines 266-271: os.rename(temp, original) either renames or raises; on
\* Windows it raises when the original exists or the temp file is gone.
\* how tells a rename from a refusal of a rename that could have been done
\* and from a rename that could not be done.
RestoreResults(rn, fs) ==
  IF fs[rn[2]] # "absent" /\ fs[rn[1]] = "absent"
  THEN {[files |-> [fs EXCEPT ![rn[1]] = fs[rn[2]], ![rn[2]] = "absent"],
         how |-> "rename_back"],
        [files |-> fs, how |-> "rename_back_refused"]}
  ELSE {[files |-> fs, how |-> "rename_back_failed"]}

\* A restoration loop with no try around os.rename: the first rename back
\* that raises ends the script.
RestoreOneRaises ==
  /\ pc = "restore"
  /\ k <= Len(renames)
  /\ \E b \in RestoreResults(renames[k], files) :
       /\ files' = b.files
       /\ calls' = Append(calls, <<b.how, k>>)
       /\ pc' = (IF b.how = "rename_back" THEN pc ELSE "done")
       /\ outcome' = (IF b.how = "rename_back" THEN outcome ELSE "crashed")
  /\ k' = k + 1
  /\ UNCHANGED <<lines, un_fastlink_tool, symcache, wsExist, i, j, tempdirs,
                 symcache_files, local_symbol_files, found_uncached, symbol_path,
                 renames, error, rename_errors, retry_reported, rerun,
                 keyVars>>

\* Lines 265-271: one iteration of the loop over renames.
RestoreOne ==
  /\ pc = "restore"
  /\ k <= Len(renames)
  /\ \E b \in RestoreResults(renames[k], files) :
       /\ files' = b.files
       /\ calls' = Append(calls, <<b.how, k>>)
  /\ k' = k + 1
  /\ UNCHANGED <<lines, un_fastlink_tool, symcache, wsExist, pc, i, j, tempdirs,
                 symcache_files, local_symbol_files, found_uncached, symbol_path,
                 renames, error, rename_errors, outcome, retry_reported, rerun,
                 keyVars>>

\* --------------------------------------------------- verification, cleanup
\* Only the cache files of the records that got a workspace are looked for.
MissingAmongCopied ==
  {n \in DOMAIN symcache_files :
     /\ symcache_files[n] \notin symcache
     /\ \E t \in Range(tempdirs) : KeyOf(lines[t]) = symcache_files[n]}

\* Lines 272-277: the targets whose cache file does not exist.
Missing == {n \in DOMAIN symcache_files : symcache_files[n] \notin symcache}

\* The error flag of the interrupt handler overwritten by the verification.
VerifyForgetsInterrupt ==
  /\ pc = "restore"
  /\ k > Len(renames)
  /\ error' = (Missing # {})
  /\ IF error'
     THEN /\ retry_reported' = TRUE
          /\ outcome' = "error"
          /\ UNCHANGED <<wsExist, calls>>
     ELSE /\ wsExist' = wsExist \ Range(tempdirs)
          /\ calls' = calls \o [n \in DOMAIN tempdirs |-> <<"rmtree", tempdirs[n]>>]
          /\ outcome' = "ok"
          /\ retry_reported' = retry_reported
  /\ pc' = "done"
  /\ UNCHANGED <<lines, un_fastlink_tool, symcache, files, i, j, k, tempdirs,
                 symcache_files, local_symbol_files, found_uncached, symbol_path,
                 renames, rename_errors, rerun, keyVars>>

\* The verification and the cleanup run before the restoration loop is over.
VerifyBeforeRestore ==
  /\ pc = "restore"
  /\ error' = (error \/ Missing # {})
  /\ IF error'
     THEN /\ retry_reported' = TRUE
          /\ outcome' = "error"
          /\ UNCHANGED <<wsExist, calls>>
     ELSE /\ wsExist' = wsExist \ Range(tempdirs)
          /\ calls' = calls \o [n \in DOMAIN tempdirs |-> <<"rmtree", tempdirs[n]>>]
          /\ outcome' = "ok"
          /\ retry_reported' = retry_reported
  /\ pc' = "done"
  /\ UNCHANGED <<lines, un_fastlink_tool, symcache, files, i, j, k, tempdirs,
                 symcache_files, local_symbol_files, found_uncached, symbol_path,
                 renames, rename_errors, rerun, keyVars>>

\* Lines 272-285.
Verify ==
  /\ pc = "restore"
  /\ k > Len(renames)
  /\ error' = (error \/ Missing # {})
  /\ IF error'
     THEN /\ retry_reported' = TRUE
          /\ outcome' = "error"
          /\ UNCHANGED <<wsExist, calls>>
     ELSE /\ wsExist' = wsExist \ Range(tempdirs)
          /\ calls' = calls \o [n \in DOMAIN tempdirs |-> <<"rmtree", tempdirs[n]>>]
          /\ outcome' = "ok"
          /\ retry_reported' = retry_reported
  /\ pc' = "done"
  /\ UNCHANGED <<lines, un_fastlink_tool, symcache, files, i, j, k, tempdirs,
                 symcache_files, local_symbol_files, found_uncached, symbol_path,
                 renames, rename_errors, rerun, keyVars>>

\* ------------------------------------------------------------ the next run
KeyIdle ==
  /\ line = <<>>
  /\ dllMatch = "None"
  /\ guid = <<>>
  /\ age = <<>>
  /\ symcache_file = <<>>
  /\ kpc = "idle"

Fresh ==
  /\ pc = "start"
  /\ i = 1
  /\ j = 1
  /\ k = 1
  /\ tempdirs = <<>>
  /\ symcache_files = <<>>
  /\ local_symbol_files = <<>>
  /\ found_uncached = FALSE
  /\ symbol_path = <<>>
  /\ renames = <<>>
  /\ error = FALSE
  /\ rename_errors = FALSE
  /\ calls = <<>>
  /\ outcome = "running"
  /\ retry_reported = FALSE
  /\ wsExist = {}

\* The script is started again on the same trace and cache store once the
\* cache holds every file the trace asks for; the files stay as the previous
\* run left them.  rerun tells a later run from the first.
Restart ==
  /\ pc = "done"
  /\ TraceKeys \subseteq symcache
  /\ rerun' = TRUE
  /\ pc' = "start"
  /\ i' = 1
  /\ j' = 1
  /\ k' = 1
  /\ tempdirs' = <<>>
  /\ symcache_files' = <<>>
  /\ local_symbol_files' = <<>>
  /\ found_uncached' = FALSE
  /\ symbol_path' = <<>>
  /\ renames' = <<>>
  /\ error' = FALSE
  /\ rename_errors' = FALSE
  /\ calls' = <<>>
  /\ outcome' = "running"
  /\ retry_reported' = FALSE
  /\ wsExist' = {}
  /\ UNCHANGED <<lines, un_fastlink_tool, symcache, files, keyVars>>

Init ==
  /\ lines \in Traces
  /\ un_fastlink_tool \in BOOLEAN
  /\ symcache \in SUBSET {KeyOf(r) : r \in Records}
  /\ files \in {fs \in [FileNames -> {"absent", "pdb", "stale"}] :
                  \A p \in Paths :
                     \/ fs[Orig(p)] = "absent" /\ fs[TempName(Orig(p))] = "absent"
                     \/ fs[Orig(p)] = "pdb" /\ fs[TempName(Orig(p))] \in {"absent", "stale"}}
  /\ rerun = FALSE
  /\ Fresh
  /\ KeyIdle

Next ==
  \/ StartRun
  \/ ScanLine
  \/ ScanEnd
  \/ HideOne
  \/ HideInterruptedInTry
  \/ InterruptHide
  \/ BuildStart
  \/ BuildFinish
  \/ InterruptBuild
  \/ RestoreOne
  \/ Verify
  \/ Restart

Spec == Init /\ [][Next]_vars

\* --------------------------------------------------------- the line scanner
\* Complete list of Chrome executables and binaries (line 156), in order.
DllNames ==
  <<"chrome.exe", "chrome.dll", "blink_web.dll", "content.dll", "chrome_elf.dll",
    "chrome_watcher.dll", "libEGL.dll", "libGLESv2.dll">>

\* A line is a sequence of tokens: a module file name, a backslash, the
\* "[RSDS] PdbSig" head of a signature line, or other text.  No module name
\* is part of another, so line.count(s) > 0 is the search for s's tokens.
LineTokens == Range(DllNames) \cup {"chrome_child.dll", "\\", "[RSDS]", "text"}

Contains(ln, pat) ==
  \E s \in 1..(Len(ln) - Len(pat) + 1) : SubSeq(ln, s, s + Len(pat) - 1) = pat

\* Lines 156-158: the loop over the names; each match overwrites dllMatch.
RECURSIVE MatchNames(_, _, _)
MatchNames(ln, n, m) ==
  IF n > Len(DllNames) THEN m
  ELSE MatchNames(ln, n + 1,
                  IF Contains(ln, <<"\\", DllNames[n]>>) THEN DllNames[n] ELSE m)

\* The special case of chrome_child.dll left out.
DllMatchNoAlias(ln) == MatchNames(ln, 1, "None")

\* Lines 150-158: the name to use when generating the .symcache file.
DllMatch(ln) ==
  MatchNames(ln, 1, IF Contains(ln, <<"chrome_child.dll">>) THEN "chrome.dll" ELSE "None")

\* pdb_re.match(line), lines 128 and 160: the pattern is anchored at the
\* start of the line.
PdbReMatch(ln) == Len(ln) > 0 /\ ln[1] = "[RSDS]"

MainIdle ==
  /\ lines = <<>>
  /\ un_fastlink_tool = FALSE
  /\ symcache = {}
  /\ files = [f \in FileNames |-> "absent"]
  /\ rerun = FALSE
  /\ Fresh

\* Lines 150-158.
MatchLine ==
  /\ kpc = "line"
  /\ dllMatch' = DllMatch(line)
  /\ kpc' = "matched"
  /\ UNCHANGED <<mainVars, line, guid, age, symcache_file>>

\* Lines 159-161: only a matched module with a signature gives a record.
ParseLine ==
  /\ kpc = "matched"
  /\ kpc' = (IF dllMatch # "None" /\ PdbReMatch(line) THEN "record" ELSE "skipped")
  /\ UNCHANGED <<mainVars, line, dllMatch, guid, age, symcache_file>>

InitMatch ==
  /\ MainIdle
  /\ line \in SeqsUpTo(LineTokens, MaxLineLen)
  /\ dllMatch = "None"
  /\ guid = <<>>
  /\ age = <<>>
  /\ symcache_file = <<>>
  /\ kpc = "line"

NextMatch == MatchLine \/ ParseLine

SpecMatch == InitMatch /\ [][NextMatch]_vars

\* ------------------------------------------------------------ the cache key
KeyGuids ==
  {<<"0e7712be", "-", "af06", "-", "4421", "-", "884b", "-", "496f833c8ec1">>,
   <<"00000000", "-", "0000", "-", "0000", "-", "0000", "-", "000000000000">>}

AgeTexts == {a \in SeqsUpTo(Range(DecDigits), MaxAgeDigits) : a # <<>>}

\* Lines 162-166.
FormatKey ==
  /\ kpc = "record"
  /\ symcache_file' = SymcacheFile(dllMatch, guid, age)
  /\ kpc' = "key"
  /\ UNCHANGED <<mainVars, line, dllMatch, guid, age>>

InitKey ==
  /\ MainIdle
  /\ line = <<>>
  /\ dllMatch \in Range(DllNames)
  /\ guid \in KeyGuids
  /\ age \in AgeTexts
  /\ symcache_file = <<>>
  /\ kpc = "record"

NextKey == FormatKey

SpecKey == InitKey /\ [][NextKey]_vars

\* ================================================================ properties
Called(op) == \E n \in DOMAIN calls : calls[n][1] = op
CalledAt(op, m) == \E n \in DOMAIN calls : calls[n] = <<op, m>>
Restored(rn) == Exists(rn[1]) /\ ~Exists(rn[2])
Attempted(n) ==
  \/ CalledAt("rename_back", n)
  \/ CalledAt("rename_back_refused", n)
  \/ CalledAt("rename_back_failed", n)

\* C1: for every RenamedFile of a run, when the process has exited the file
\* is at its original path and not at its temp path.  Stated for the runs in
\* which the operating system refuses no rename back that could be done.
RestorationTotal ==
  (pc = "done" /\ ~Called("rename_back_refused"))
    => \A n \in DOMAIN renames : Restored(renames[n])

\* C2: while the cache-build tool runs, no file recorded as a local source
\* exists at its original path: each one is at its marker-suffixed sibling.
LocalsHiddenDuringBuild ==
  pc = "build"
    => \A n \in DOMAIN local_symbol_files :
         /\ ~Exists(local_symbol_files[n])
         /\ files[TempName(local_symbol_files[n])] = "pdb"

LocalsHiddenDuringBuildWitness ==
  /\ pc = "build"
  /\ Len(local_symbol_files) = 2

\* C3, as claimed: after a rename failure the build tool is not invoked and
\* the files that were hidden are back at their original paths at exit.
RenameFailureSkipsBuildAndRestores ==
  (pc = "done" /\ rename_errors)
    => /\ ~Called("xperf_build")
       /\ \A n \in DOMAIN renames : Restored(renames[n])

\* C3, amended: after a rename failure the build tool is not invoked, a
\* rename back is attempted for every recorded rename, and each file whose
\* rename back succeeded is at its original path at exit.
RenameFailureSkipsBuildAndAttemptsRestore ==
  (pc = "done" /\ rename_errors)
    => /\ ~Called("xperf_build")
       /\ \A n \in DOMAIN renames :
            /\ Attempted(n)
            /\ CalledAt("rename_back", n) => Restored(renames[n])

RenameFailureWitness ==
  /\ pc = "done"
  /\ rename_errors
  /\ renames # <<>>
  /\ Called("skip_build")
  /\ Called("rename_back")

\* C4: an interrupt during the build is caught: the run goes on to the
\* restoration loop and, before it exits, a rename back has been attempted
\* for every rename recorded.
InterruptedBuild ==
  \E n \in DOMAIN calls :
    /\ calls[n] = <<"interrupt", 0>>
    /\ n > 1
    /\ calls[n - 1] = <<"xperf_build", 0>>

InterruptedBuildRestores ==
  InterruptedBuild
    => /\ pc \in {"restore", "done"}
       /\ outcome # "crashed"
       /\ \A n \in DOMAIN renames : (pc = "done" \/ n < k) => Attempted(n)

InterruptedBuildWitness ==
  /\ InterruptedBuild
  /\ pc = "done"
  /\ Len(renames) = 2

\* C5: a record whose cache file exists when it is scanned causes no
\* retrieval, no workspace, no strip, no scheduling of a rename, and adds no
\* verification target.  The cache store is as it was scanned until the
\* build tool ends.
ScanEvents ==
  {"retrieve", "resolved", "local", "mkdtemp", "pdbcopy", "pdbcopy_failed", "unfastlink"}
Scanned == IF pc = "start" THEN {} ELSE {n \in DOMAIN lines : n < i}
CachedWhenScanned == {n \in Scanned : KeyOf(lines[n]) \in symcache}

CacheHitShortCircuit ==
  pc \in {"scan", "hide", "build"}
    => /\ \A n \in CachedWhenScanned :
            /\ \A op \in ScanEvents : ~CalledAt(op, n)
            /\ n \notin Range(tempdirs)
            /\ KeyOf(lines[n]) \notin Range(symcache_files)
       /\ Len(symcache_files) = Cardinality(Scanned \ CachedWhenScanned)
       /\ Len(local_symbol_files)
            = Cardinality({n \in Scanned : CalledAt("local", n)})

CacheHitWitness ==
  /\ pc = "build"
  /\ CachedWhenScanned # {}
  /\ local_symbol_files # <<>>

\* C6: when pdbcopy fails and there is no un-fastlink tool, the run ends
\* there: the build tool is not invoked and no file has been renamed.
StripFailureAborts ==
  (~un_fastlink_tool /\ Called("pdbcopy_failed"))
    => /\ pc = "done"
       /\ outcome = "crashed"
       /\ ~Called("xperf_build")
       /\ ~Called("rename")
       /\ renames = <<>>

StripFailureWitness ==
  /\ ~un_fastlink_tool
  /\ Called("pdbcopy_failed")
  /\ local_symbol_files # <<>>
  /\ Len(tempdirs) = 2

\* C7, as claimed: a second run over the same trace and a warm cache makes
\* no external tool invocation.
ToolOps == {"xperf_dbgid", "retrieve", "pdbcopy", "unfastlink", "xperf_build"}
ToolCalls == SelectSeq(calls, LAMBDA c : c[1] \in ToolOps)

RerunInvokesNoTool == rerun => ToolCalls = <<>>

\* C7, amended: the second run invokes the trace-analysis tool and no other
\* tool, and touches no file.
RerunInvokesOnlyTraceTool ==
  rerun => /\ ToolCalls \in {<<>>, <<<<"xperf_dbgid", 0>>>>}
           /\ calls = ToolCalls
           /\ pc = "done" => outcome \in {"noop", "crashed", "nothing_uncached"}

RerunWitness ==
  /\ rerun
  /\ pc = "done"
  /\ outcome = "nothing_uncached"
  /\ Len(lines) = 2

\* C8: once the build phase is reached the workspaces are deleted exactly
\* when every targeted cache file exists at verification and there was no
\* interrupt; otherwise all are kept and the retry instructions are printed.
\* No other path deletes a workspace.
Interrupted == Called("interrupt")
Kept == Range(tempdirs) \subseteq wsExist
Deleted == Range(tempdirs) \cap wsExist = {}

WorkspacesDeletedIffVerified ==
  /\ (pc = "done" /\ outcome \in {"ok", "error"})
       => /\ Deleted <=> (Missing = {} /\ ~Interrupted)
          /\ (Missing # {} \/ Interrupted) => (Kept /\ retry_reported)
  /\ ~(pc = "done" /\ outcome = "ok") => Kept

WorkspacesDeletedWitness ==
  /\ pc = "done"
  /\ outcome = "ok"
  /\ Len(tempdirs) = 2
  /\ Deleted

\* C9: the cache path is <cacheRoot>\<cacheName>-<guid without hyphens><age
\* in hex>v2.symcache, the age in lowercase hexadecimal without prefix: its
\* digits, read as a base-16 number, give the decimal age of the trace, and
\* age 51 gives 33.
RECURSIVE BaseValue(_, _, _)
BaseValue(ds, alphabet, base) ==
  IF ds = <<>> THEN 0
  ELSE base * BaseValue(SubSeq(ds, 1, Len(ds) - 1), alphabet, base)
       + (CHOOSE v \in 0..(base - 1) : alphabet[v + 1] = ds[Len(ds)])

CachePathFormat ==
  kpc = "key"
    => LET head == <<"c:\\symcache\\", dllMatch, "-",
                     guid[1], guid[3], guid[5], guid[7], guid[9]>>
           hex == SubSeq(symcache_file, Len(head) + 1, Len(symcache_file) - 1)
       IN /\ symcache_file = head \o hex \o <<"v2.symcache">>
          /\ hex # <<>>
          /\ \A n \in DOMAIN hex : hex[n] \in Range(HexDigits)
          /\ BaseValue(hex, HexDigits, 16) = BaseValue(age, DecDigits, 10)
          /\ age = <<"5", "1">> => hex = <<"3", "3">>

CachePathWitness ==
  /\ kpc = "key"
  /\ age = <<"9", "0">>
  /\ dllMatch = "chrome.dll"
  /\ symcache_file[Len(symcache_file) - 1] = "a"

\* C10, as claimed: a line that references chrome_child.dll resolves to
\* chrome.dll, and a line that references another recognized module resolves
\* to a module it references.
ReferencesChild == Contains(line, <<"chrome_child.dll">>)
Referenced == {n \in DOMAIN DllNames : Contains(line, <<"\\", DllNames[n]>>)}

AttemptOps == {"rename_back", "rename_back_refused", "rename_back_failed"}
Attempts(n) == {m \in DOMAIN calls : calls[m][1] \in AttemptOps /\ calls[m][2] = n}
PastBuildPhase == pc = "done" /\ outcome \in {"ok", "error"}

RestoredExactlyOnce ==
  /\ \A m \in DOMAIN calls : calls[m][1] \in AttemptOps => calls[m][2] \in DOMAIN renames
  /\ pc = "restore" =>
       \A n \in DOMAIN renames : Cardinality(Attempts(n)) = (IF n < k THEN 1 ELSE 0)
  /\ PastBuildPhase => \A n \in DOMAIN renames : Cardinality(Attempts(n)) = 1
  /\ pc \in {"hide", "build"} => ~(\E op \in AttemptOps : Called(op))

RestoredExactlyOnceWitness ==
  /\ PastBuildPhase
  /\ Interrupted
  /\ ~Called("xperf_build")
  /\ renames # <<>>
  /\ \A n \in DOMAIN renames : Cardinality(Attempts(n)) = 1

\* C12: a rename back that fails ends nothing: the loop goes on to the
\* entries after it, the script does not end with an exception, and the run
\* reaches the verification with a rename back attempted for every entry.
RestoreFailedAt(n) ==
  CalledAt("rename_back_refused", n) \/ CalledAt("rename_back_failed", n)

RestoreFailuresIndependent ==
  \A n \in DOMAIN renames :
    RestoreFailedAt(n)
      => /\ pc \in {"restore", "done"}
         /\ pc = "restore" => (k > n /\ outcome = "running")
         /\ pc = "done" => /\ outcome \in {"ok", "error"}
                           /\ \A m \in DOMAIN renames : Attempted(m)

RestoreFailuresIndependentWitness ==
  /\ pc = "done"
  /\ Len(renames) = 2
  /\ RestoreFailedAt(1)
  /\ CalledAt("rename_back", 2)
  /\ Restored(renames[2])

\* C13: a cache miss for which RetrieveSymbols.exe resolved nothing and whose
\* Pdb path does not exist gets no workspace and no pdbcopy, and does not end
\* the loop: a run that ends inside the loop ends at a later record, and a
\* run that leaves the loop has scanned every line.  The files are as they
\* were scanned until the hide loop starts.
FilesAsScanned ==
  \/ pc = "scan"
  \/ pc = "done" /\ outcome \in {"aborted", "crashed", "nothing_copied"}
RetrievalFailed(n) ==
  /\ CalledAt("retrieve", n)
  /\ ~CalledAt("resolved", n)
  /\ ~Exists(Orig(lines[n].path))

RetrievalFailureNonFatal ==
  /\ FilesAsScanned =>
       \A n \in Scanned :
         RetrievalFailed(n)
           => /\ \A op \in {"local", "mkdtemp", "pdbcopy", "unfastlink"} : ~CalledAt(op, n)
              /\ n \notin Range(tempdirs)
              /\ outcome \in {"aborted", "crashed"} => n < i - 1
  /\ (pc \in {"hide", "build", "restore"}
        \/ outcome \in {"nothing_copied", "nothing_uncached", "ok", "error"})
       => i = Len(lines) + 1

RetrievalFailureWitness ==
  /\ pc = "scan"
  /\ i = 3
  /\ RetrievalFailed(1)
  /\ CalledAt("pdbcopy", 2)

\* C14: for each record the runs of pdbcopy and of the un-fastlink tool are
\* pdbcopy, or pdbcopy (failed), un-fastlink, pdbcopy: the conversion comes
\* only after a failed pdbcopy and is followed by one more pdbcopy unless the
\* conversion itself raised; and over the whole run the un-fastlink tool is
\* not run twice on one PDB.
StripOps == {"pdbcopy", "pdbcopy_failed", "unfastlink"}
StripEvents(n) == SelectSeq(calls, LAMBDA c : c[1] \in StripOps /\ c[2] = n)
StripOpsOf(n) == [m \in DOMAIN StripEvents(n) |-> StripEvents(n)[m][1]]
LastEventOf(n) == calls # <<>> /\ calls[Len(calls)][2] = n /\ calls[Len(calls)][1] \in StripOps

StripRetriedOncePerRecord ==
  \A n \in DOMAIN lines :
    \/ StripOpsOf(n) \in {<<>>, <<"pdbcopy">>,
                          <<"pdbcopy", "pdbcopy_failed", "unfastlink", "pdbcopy">>}
    \/ /\ StripOpsOf(n) \in
            {<<"pdbcopy", "pdbcopy_failed">>,
             <<"pdbcopy", "pdbcopy_failed", "unfastlink">>,
             <<"pdbcopy", "pdbcopy_failed", "unfastlink", "pdbcopy", "pdbcopy_failed">>}
       /\ outcome = "crashed"
       /\ LastEventOf(n)

\* Two records name one PDB when both took the local file at the same path,
\* or both were downloaded by the same retrieval command.
SameDebugFile(m, n) ==
  \/ CalledAt("local", m) /\ CalledAt("local", n) /\ lines[m].path = lines[n].path
  \/ CalledAt("resolved", m) /\ CalledAt("resolved", n) /\ lines[m] = lines[n]

ConvertedOncePerFile ==
  \A m, n \in DOMAIN lines :
    (m # n /\ CalledAt("unfastlink", m) /\ CalledAt("unfastlink", n))
      => ~SameDebugFile(m, n)

StripRetriedOnceConvertedOnce ==
  /\ StripRetriedOncePerRecord
  /\ ConvertedOncePerFile

\* C15: when dest_path does not exist after the strip, the run ends there:
\* that record is the last one scanned, nothing is done for a later line, no
\* file is renamed and the build tool is not invoked.
DestMissing == {n \in DOMAIN lines : CalledAt("dest_missing", n)}

MissingDestAborts ==
  \A n \in DestMissing :
    /\ pc = "done"
    /\ outcome = "aborted"
    /\ i = n + 1
    /\ calls[Len(calls)] = <<"dest_missing", n>>
    /\ \A m \in DOMAIN calls : calls[m][1] \in ScanEvents => calls[m][2] <= n
    /\ ~Called("rename")
    /\ renames = <<>>
    /\ ~Called("xperf_build")
    /\ Len(symcache_files) <= n

MissingDestWitness ==
  /\ DestMissing = {1}
  /\ Len(lines) = 2
  /\ KeyOf(lines[2]) \notin symcache
  /\ local_symbol_files # <<>>
  /\ pc = "done"

\* C16: the order of the build phase.  The symbol path is the list of the
\* workspaces from the moment the hide loop starts; the build tool starts
\* when the hide loop is over and every local file is renamed; a rename back
\* comes after the build was started, skipped or interrupted, never while the
\* tool runs; and the verification, the retry instructions and the deletion
\* of a workspace come after a rename back was attempted for every entry.
Idx(ops) == {m \in DOMAIN calls : calls[m][1] \in ops}
Before(A, B) == \A a \in A, b \in B : a < b
BuildEnds == Idx({"xperf_build", "skip_build", "interrupt"})

BuildPhaseOrder ==
  /\ (pc \in {"hide", "build", "restore"} \/ PastBuildPhase)
       => (symbol_path = tempdirs /\ tempdirs # <<>>)
  /\ pc = "build" => /\ j > Len(local_symbol_files)
                     /\ Len(renames) = Len(local_symbol_files)
                     /\ Idx(AttemptOps) = {}
  /\ Before(Idx({"rename"}), Idx({"xperf_build"}))
  /\ Idx(AttemptOps) # {} => (BuildEnds # {} /\ Before(BuildEnds, Idx(AttemptOps)))
  /\ Before(Idx(AttemptOps), Idx({"rmtree"}))
  /\ (PastBuildPhase \/ Called("rmtree") \/ retry_reported)
       => \A n \in DOMAIN renames : Attempted(n)
  /\ pc = "restore" => (outcome = "running" /\ Kept /\ ~retry_reported)

BuildPhaseOrderWitness ==
  /\ pc = "done"
  /\ outcome = "ok"
  /\ Len(renames) = 2
  /\ Called("xperf_build")
  /\ Called("rmtree")
  /\ \A n \in DOMAIN renames : CalledAt("rename_back", n)

\* C17: a record is taken as a local source only when RetrieveSymbols.exe
\* resolved nothing for it and a file exists at its Pdb path; the paths
\* scheduled for hiding are those of the local records, in order, and every
\* rename is of one of them, so a record that was downloaded adds none.
LocalRecords ==
  SelectSeq([n \in DOMAIN lines |-> n], LAMBDA n : CalledAt("local", n))

LocalOnlyWhenUnresolved ==
  /\ \A n \in DOMAIN lines :
       CalledAt("local", n) => (CalledAt("retrieve", n) /\ ~CalledAt("resolved", n))
  /\ FilesAsScanned =>
       \A n \in DOMAIN lines : CalledAt("local", n) => Exists(Orig(lines[n].path))
  /\ Len(local_symbol_files) = Len(LocalRecords)
  /\ \A q \in DOMAIN local_symbol_files :
       local_symbol_files[q] = Orig(lines[LocalRecords[q]].path)
  /\ \A m \in DOMAIN calls :
       calls[m][1] = "rename" => calls[m][2] \in DOMAIN local_symbol_files
  /\ \A m \in DOMAIN renames :
       \E q \in DOMAIN local_symbol_files :
         renames[m] = <<local_symbol_files[q], TempName(local_symbol_files[q])>>

LocalOnlyWhenUnresolvedWitness ==
  /\ pc = "build"
  /\ CalledAt("resolved", 1)
  /\ CalledAt("local", 2)
  /\ lines[1].path # lines[2].path
  /\ Exists(Orig(lines[1].path))
  /\ Len(renames) = 1

\* C18: a run that made no workspace never enters the build phase: the build
\* tool is not invoked, no file is renamed or renamed back, nothing is
\* deleted, and when the loop is over the run ends with one of two messages,
\* which tells whether a cache miss was found.
NoWorkspaceNoBuild ==
  tempdirs = <<>>
    => /\ pc \in {"start", "scan", "done"}
       /\ \A op \in {"xperf_build", "skip_build", "rename", "rmtree", "mkdtemp"} \cup AttemptOps :
            ~Called(op)
       /\ renames = <<>>
       /\ local_symbol_files = <<>>
       /\ wsExist = {}
       /\ ~retry_reported
       /\ found_uncached <=> Called("retrieve")
       /\ pc = "done" =>
            \/ outcome \in {"noop", "crashed"} /\ i = 1
            \/ /\ i = Len(lines) + 1
               /\ outcome = (IF found_uncached THEN "nothing_copied"
                             ELSE "nothing_uncached")

NoWorkspaceWitness ==
  /\ pc = "done"
  /\ tempdirs = <<>>
  /\ outcome = "nothing_copied"
  /\ Len(symcache_files) = 2

\* C19: when the process has exited, the PDB of every path recorded as a
\* local source is at that path or at its marker-suffixed sibling.
LocalFileNeverDestroyed ==
  pc = "done"
    => \A q \in DOMAIN local_symbol_files :
         \/ files[local_symbol_files[q]] = "pdb"
         \/ files[TempName(local_symbol_files[q])] = "pdb"

\* C20: a cache miss for which nothing was retrieved stays a target of the
\* verification.  When the run has been through the build phase and the
\* cache file of such a record does not exist, the run ends with the error
\* outcome, every workspace kept and the retry instructions printed,
\* whatever was built for the records that got a workspace.
Unresolved ==
  {n \in DOMAIN lines : CalledAt("retrieve", n) /\ ~CalledAt("mkdtemp", n)}
Copied == {n \in DOMAIN lines : CalledAt("mkdtemp", n)}

UnresolvedStaysTarget ==
  /\ \A n \in DOMAIN lines :
       CalledAt("retrieve", n) => KeyOf(lines[n]) \in Range(symcache_files)
  /\ (PastBuildPhase /\ \E n \in Unresolved : KeyOf(lines[n]) \notin symcache)
       => /\ outcome = "error"
          /\ error
          /\ Kept
          /\ retry_reported
          /\ ~Called("rmtree")

UnresolvedStaysTargetWitness ==
  /\ PastBuildPhase
  /\ Called("xperf_build")
  /\ ~Interrupted
  /\ \E n \in Unresolved : KeyOf(lines[n]) \notin symcache
  /\ Copied # {}
  /\ \A n \in Copied : KeyOf(lines[n]) \in symcache

====
